---- MODULE Spec2Model ----
(***************************************************************************)
(* A model of lsst.pipe.base.config: the metaclass PipelineTaskConfigMeta  *)
(* that, while a PipelineTaskConfig subclass is being declared, builds a   *)
(* "Connections" config class out of a PipelineTaskConnections class and   *)
(* installs it in the namespace of the class under declaration.            *)
(*                                                                         *)
(* Class objects are numbered.  `types` holds the config classes (index =  *)
(* identity), `cfgs` the nested config classes that ConfigField dtypes and *)
(* ConnectionsConfigClass refer to, `insts` the config instances, and      *)
(* `last` the arguments and the outcome of the latest class statement.     *)
(***************************************************************************)
EXTENDS Integers, Sequences, FiniteSets, TLC

VARIABLES types, cfgs, insts, last

vars == <<types, cfgs, insts, last>>

\* How many class statements a behaviour executes successfully.
MaxTypes == 2
\* How many base classes a class statement lists.
MaxBases == 2
\* How many config instances a behaviour constructs.
MaxInsts == 2

----------------------------------------------------------------------------
(* Python values.                                                          *)

\* 'pipelineConnections' not in kwargs / attribute not present.
NoSpec == "None"

\* A class attribute that holds a class or a ConfigField refers to a nested
\* config class by its index in cfgs; NoCfg is "no such attribute".
NoCfg == 0

\* The value of the name that line 61 compares with.
RootName == "PipelineTaskConfig"

\* Names a class statement may give to the class it declares.
ClassNames == {RootName, "TaskConfig"}

\* The three names the metaclass writes into the namespace (lines 96-100).
AttrNames == {"connections", "ConnectionsConfigClass", "ConnectionsClass"}

----------------------------------------------------------------------------
(* The connections classes a class statement can name.  They come from     *)
(* .connections (line 34) and are read, never written, by this module.     *)

\* Subclasses of PipelineTaskConnections.
ConnectionsTypes == {"S1", "S2", "S3", "S4"}

\* A class that is not a subclass of PipelineTaskConnections.
NotConnections == "Bad"

\* connectionsClass.allConnections.items(): (fieldName, obj.name) in dict order.
allConnections(S) ==
  CASE S = "S1" -> << <<"input", "raw">>, <<"output", "calib">> >>
    [] S = "S2" -> << <<"a", "x">> >>
    [] S = "S3" -> << <<"t", "z">> >>
    [] S = "S4" -> << <<"b", "y">>, <<"ConnectionsClass", "w">> >>
    [] OTHER    -> << >>

\* hasattr(connectionsClass, 'defaultTemplates')
hasDefaultTemplates(S) == S \in {"S2", "S3"}

\* connectionsClass.defaultTemplates.items(): (templateName, default).
defaultTemplates(S) ==
  CASE S = "S2" -> << <<"t", "v">> >>
    [] S = "S3" -> << <<"t", "v">>, <<"ConnectionsClass", "u">> >>
    [] OTHER    -> << >>

\* issubclass(connectionsClass, PipelineTaskConnections)
issubclass(S) == S \in ConnectionsTypes

----------------------------------------------------------------------------
(* Namespaces of nested config classes: a dict from attribute name to      *)
(* either a pexConfig.Field(dtype=str) or a reference to a class.          *)

\* dict assignment ns[k] = v: a later write to the same key replaces it.
Put(ns, k, v) ==
  [x \in (DOMAIN ns) \cup {k} |-> IF x = k THEN v ELSE ns[x]]

\* pexConfig.Field(dtype=str, doc=..., default=...)
StrField(doc, default) == [kind |-> "Field", doc |-> doc, val |-> default]

\* A namespace entry that is a class object, not a Field.
ClassRef(S) == [kind |-> "Class", doc |-> "", val |-> S]

\* connectionFields with default=fieldName in place of default=obj.name.
RECURSIVE connectionFieldsByKey(_, _, _)
connectionFieldsByKey(ns, items, i) ==
  IF i > Len(items) THEN ns
  ELSE connectionFieldsByKey(
         Put(ns, items[i][1],
             StrField("name for connection " \o items[i][1], items[i][1])),
         items, i + 1)

\* One Field per connection, default = the descriptor's name (lines 78-82).
RECURSIVE connectionFields(_, _, _)
connectionFields(ns, items, i) ==
  IF i > Len(items) THEN ns
  ELSE connectionFields(
         Put(ns, items[i][1],
             StrField("name for connection " \o items[i][1], items[i][2])),
         items, i + 1)

\* One Field per template, default = the template's default (lines 86-89).
RECURSIVE templateLoop(_, _, _)
templateLoop(ns, items, i) ==
  IF i > Len(items) THEN ns
  ELSE templateLoop(
         Put(ns, items[i][1],
             StrField("Template parameter used to format corresponding field template parameter",
                      items[i][2])),
         items, i + 1)

\* templateFields with the hasattr test inverted: no template becomes a Field.
templateFieldsNever(ns, S) ==
  IF ~hasDefaultTemplates(S) THEN templateLoop(ns, defaultTemplates(S), 1) ELSE ns

\* Lines 84-89: the template fields are added only when the class has them.
templateFields(ns, S) ==
  IF hasDefaultTemplates(S) THEN templateLoop(ns, defaultTemplates(S), 1) ELSE ns

\* connectionsClassRef as dict.setdefault: an entry already there is kept.
connectionsClassRefIfAbsent(ns, S) ==
  IF "ConnectionsClass" \in DOMAIN ns THEN ns ELSE Put(ns, "ConnectionsClass", ClassRef(S))

\* Line 91: the reference to the connections class, written last.
connectionsClassRef(ns, S) == Put(ns, "ConnectionsClass", ClassRef(S))

\* Lines 77-91: the namespace of the Connections class.
configConnectionsNamespace(S) ==
  connectionsClassRef(
    templateFields(connectionFields(<< >>, allConnections(S), 1), S), S)

\* ConfigMeta collects the namespace entries that are Fields.
FieldNames(c) == {n \in DOMAIN c.ns : c.ns[n].kind = "Field"}

\* Connections.ConnectionsClass, read as a class attribute.
ConnectionsClassOf(c) ==
  IF "ConnectionsClass" \in DOMAIN c.ns THEN c.ns["ConnectionsClass"].val ELSE NoSpec

\* A nested config class written by hand, outside this module: no fields, and a
\* ConnectionsClass attribute that is not a PipelineTaskConnections subclass.
HandCfg == [ns |-> Put(<< >>, "ConnectionsClass", ClassRef(NotConnections)),
            synthesized |-> FALSE]

----------------------------------------------------------------------------
(* Config classes.                                                         *)

\* The namespace attributes of a config class that this module reads or writes.
EmptyDct == [connections |-> NoCfg, ConnectionsConfigClass |-> NoCfg,
             ConnectionsClass |-> NoSpec]

\* What a class body may write under the three names: nothing, `connections`
\* alone, the two class references, or all three.
OwnChoices == {{}, {"connections"}, AttrNames \ {"connections"}, AttrNames}

\* The class body's own namespace: what the author of the class wrote under the
\* three names, before the metaclass runs.  `own` is the set of names written.
UserDct(own) ==
  [connections            |-> IF "connections" \in own THEN 1 ELSE NoCfg,
   ConnectionsConfigClass |-> IF "ConnectionsConfigClass" \in own THEN 1 ELSE NoCfg,
   ConnectionsClass       |-> IF "ConnectionsClass" \in own THEN NotConnections ELSE NoSpec]

\* class PipelineTaskConfig(pexConfig.Config, metaclass=PipelineTaskConfigMeta)
RootType == [name |-> RootName, bases |-> << >>, mro |-> <<1>>, dct |-> EmptyDct,
             meta |-> TRUE, origin |-> "root", kw |-> NoSpec]

\* A pexConfig.Config subclass declared elsewhere, not through the metaclass,
\* whose body has connections = ConfigField(dtype=HandCfg).
MixinType == [name |-> "Mixin", bases |-> << >>, mro |-> <<2>>,
              dct |-> [EmptyDct EXCEPT !.connections = 1],
              meta |-> FALSE, origin |-> "foreign", kw |-> NoSpec]

Min(S) == CHOOSE x \in S : \A y \in S : x <= y

\* The class of t's MRO that defines attribute a, or 0.
Definer(ts, t, a) ==
  LET m == ts[t].mro
      idx == {i \in 1..Len(m) :
                IF a = "ConnectionsClass" THEN ts[m[i]].dct[a] # NoSpec
                ELSE ts[m[i]].dct[a] # NoCfg}
  IN IF idx = {} THEN 0 ELSE m[Min(idx)]

\* hasattr(base, "connections"), resolved along base's MRO.
hasattr(ts, t, a) == Definer(ts, t, a) # 0

\* getattr(t, a) for the two attributes that refer to a nested config class.
CfgAttr(ts, t, a) == IF hasattr(ts, t, a) THEN ts[Definer(ts, t, a)].dct[a] ELSE NoCfg

\* getattr(t, "ConnectionsClass").
SpecAttr(ts, t) ==
  IF hasattr(ts, t, "ConnectionsClass")
  THEN ts[Definer(ts, t, "ConnectionsClass")].dct.ConnectionsClass ELSE NoSpec

\* C3 linearisation, as type.__new__ computes it; <<0>> marks "no consistent MRO".
RECURSIVE Merge(_)
Merge(seqs) ==
  LET ne == SelectSeq(seqs, LAMBDA s : Len(s) > 0)
  IN IF Len(ne) = 0 THEN << >>
     ELSE LET good(i) == \A j \in 1..Len(ne) : \A k \in 2..Len(ne[j]) : ne[j][k] # ne[i][1]
              cands == {i \in 1..Len(ne) : good(i)}
          IN IF cands = {} THEN <<0>>
             ELSE LET h == ne[Min(cands)][1]
                  IN <<h>> \o Merge([j \in 1..Len(ne) |->
                                       IF ne[j][1] = h THEN Tail(ne[j]) ELSE ne[j]])

Linearize(ts, id, bases) ==
  <<id>> \o Merge([i \in 1..Len(bases) |-> ts[bases[i]].mro] \o <<bases>>)

MroOk(m) == \A i \in 1..Len(m) : m[i] # 0

----------------------------------------------------------------------------
(* PipelineTaskConfigMeta.__new__                                          *)

\* Line 61: the declaration of PipelineTaskConfig itself is left alone.
isRootDeclaration(name) == name = RootName

\* Lines 65-68: the first base that has a `connections` attribute decides.
scanBases(ts, cs, bases) ==
  LET idx == {i \in 1..Len(bases) : hasattr(ts, bases[i], "connections")}
  IN IF idx = {} THEN NoSpec
     ELSE ConnectionsClassOf(cs[CfgAttr(ts, bases[Min(idx)], "connections")])

\* Lines 64-68: kwargs['pipelineConnections'] after the lookup.
pipelineConnections(ts, cs, bases, kw) ==
  IF kw # NoSpec THEN kw ELSE scanBases(ts, cs, bases)

\* Lines 69-73: the two checks, in the order the code makes them.
checkConnections(S) ==
  IF S = NoSpec THEN "NameError"
  ELSE IF ~issubclass(S) THEN "ValueError"
  ELSE "ok"

\* Line 94: each call of type(...) makes a new class object.
newConnections(cs) == Len(cs) + 1

\* Lines 96-100: the three entries written into the namespace of the class.
augment(dct, c, S) ==
  [dct EXCEPT !.connections = c, !.ConnectionsConfigClass = c, !.ConnectionsClass = S]

\* The class statement `class name(*bases, pipelineConnections=kw): <own>`.
Declare(name, bases, kw, own) ==
  LET dct0     == UserDct(own)
      skip     == isRootDeclaration(name)
      resolved == IF skip THEN NoSpec ELSE pipelineConnections(types, cfgs, bases, kw)
      verdict  == IF skip THEN "ok" ELSE checkConnections(resolved)
      synth    == ~skip /\ verdict = "ok"
      c        == newConnections(cfgs)
      dct1     == IF synth THEN augment(dct0, c, resolved) ELSE dct0
      id       == Len(types) + 1
      mro      == Linearize(types, id, bases)
      result   == IF verdict # "ok" THEN verdict
                  ELSE IF ~MroOk(mro) THEN "TypeError" ELSE "ok"
  IN /\ Len(types) < 2 + MaxTypes
     \* An exception raised by a class statement is not caught here: it ends the
     \* import of the declaring module, and it leaves types and cfgs as they were.
     /\ last.result = "ok"
     /\ last' = [name |-> name, bases |-> bases, kw |-> kw, own |-> own,
                 resolved |-> resolved, result |-> result,
                 dct |-> IF verdict = "ok" THEN dct1 ELSE dct0,
                 type |-> IF result = "ok" THEN id ELSE 0,
                 cfg |-> IF result = "ok" /\ synth THEN c ELSE NoCfg]
     /\ IF result = "ok"
        THEN /\ types' = Append(types, [name |-> name, bases |-> bases, mro |-> mro,
                                        dct |-> dct1, meta |-> TRUE,
                                        origin |-> "declared", kw |-> kw])
             /\ cfgs' = IF synth
                        THEN Append(cfgs, [ns |-> configConnectionsNamespace(resolved),
                                           synthesized |-> TRUE])
                        ELSE cfgs
        ELSE UNCHANGED <<types, cfgs>>
     /\ UNCHANGED insts

\* The base lists of a class statement that the metaclass is invoked for: no
\* class twice, and at least one base whose metaclass is PipelineTaskConfigMeta.
BaseLists ==
  {b \in UNION {[1..n -> DOMAIN types] : n \in 1..MaxBases} :
     /\ \A i, j \in DOMAIN b : i # j => b[i] # b[j]
     /\ \E i \in DOMAIN b : types[b[i]].meta}

DeclareAny ==
  \E name \in ClassNames, bases \in BaseLists,
     kw \in {NoSpec, NotConnections} \cup ConnectionsTypes, own \in OwnChoices :
       Declare(name, bases, kw, own)

----------------------------------------------------------------------------
Init ==
  /\ types = <<RootType, MixinType>>
  /\ cfgs = <<HandCfg>>
  /\ insts = << >>
  /\ last = [name |-> RootName, bases |-> << >>, kw |-> NoSpec, own |-> {},
             resolved |-> NoSpec, result |-> "ok", dct |-> EmptyDct,
             type |-> 1, cfg |-> NoCfg]

----------------------------------------------------------------------------
(* Config instances.  A config instance holds, for its `connections`       *)
(* ConfigField, an instance of the field's dtype whose storage starts as a *)
(* copy of the dtype's field defaults; assigning to a field writes that    *)
(* instance's storage.                                                     *)

\* The values an override assigns.
OverrideValues == {"flat"}

\* config = T()
Instantiate(t) ==
  LET c == CfgAttr(types, t, "connections")
  IN /\ Len(insts) < MaxInsts
     /\ c # NoCfg
     /\ insts' = Append(insts, [owner |-> t, cfg |-> c,
                                vals |-> [f \in FieldNames(cfgs[c]) |-> cfgs[c].ns[f].val]])
     /\ UNCHANGED <<types, cfgs, last>>

\* config.connections.<f> = v
Override(i, f, v) ==
  /\ f \in DOMAIN insts[i].vals
  /\ insts[i].vals[f] # v
  /\ insts' = [insts EXCEPT ![i].vals[f] = v]
  /\ UNCHANGED <<types, cfgs, last>>

InstantiateAny == \E t \in DOMAIN types : Instantiate(t)

OverrideAny ==
  \E i \in DOMAIN insts : \E f \in DOMAIN insts[i].vals : \E v \in OverrideValues :
    Override(i, f, v)

\* Class statements with one base and an empty body, for the behaviours that
\* also construct and override instances.
DeclarePlain ==
  \E name \in ClassNames, b \in {t \in DOMAIN types : types[t].meta},
     kw \in {NoSpec, "S1", "S2"} :
       Declare(name, <<b>>, kw, {})

\* Class statements with one base class.
DeclareSingle ==
  \E name \in ClassNames, b \in {t \in DOMAIN types : types[t].meta},
     kw \in {NoSpec, NotConnections} \cup ConnectionsTypes, own \in OwnChoices :
       Declare(name, <<b>>, kw, own)

Next == DeclareAny

NextSingle == DeclareSingle

SpecSingle == Init /\ [][NextSingle]_vars

NextInst == DeclarePlain \/ InstantiateAny \/ OverrideAny

SpecInst == Init /\ [][NextInst]_vars


Spec == Init /\ [][Next]_vars

----------------------------------------------------------------------------
(* Vocabulary of the properties.                                           *)

\* The owning configuration types: the classes declared through the metaclass
\* below the root.
Owning == {t \in DOMAIN types : types[t].origin = "declared"}

\* `last` describes a class statement (initially it describes the root's own).
LastIsDeclaration == Len(last.bases) > 0

\* The specification the resolution rules give to a class statement: the
\* explicit argument, else the one of the first base that has `connections`.
DeclaredSpec(t) == pipelineConnections(types, cfgs, types[t].bases, types[t].kw)

LastSpec == pipelineConnections(types, cfgs, last.bases, last.kw)

\* The first base of a base list that has a `connections` attribute, or 0.
FirstCarrier(bases) ==
  LET idx == {i \in 1..Len(bases) : hasattr(types, bases[i], "connections")}
  IN IF idx = {} THEN 0 ELSE bases[Min(idx)]

Keys(items) == {items[i][1] : i \in 1..Len(items)}

\* No class statement of the behaviour so far reused the root's name.
NoRootNamed ==
  /\ \A t \in Owning : ~isRootDeclaration(types[t].name)
  /\ LastIsDeclaration => ~isRootDeclaration(last.name)

----------------------------------------------------------------------------
\* The class statement of t synthesized a connections config.
Synthesized(t) ==
  /\ types[t].dct.connections # NoCfg
  /\ cfgs[types[t].dct.connections].synthesized

C2_Claim ==
  \A t \in Owning :
    LET b == FirstCarrier(types[t].bases)
    IN (types[t].kw = NoSpec /\ b # 0) =>
         /\ SpecAttr(types, t) = ConnectionsClassOf(cfgs[CfgAttr(types, b, "connections")])
         /\ SpecAttr(types, t) = SpecAttr(types, b)

C2_WithoutRootNamed == NoRootNamed => C2_Claim

\* C3: a class statement below the root with no explicit specification and no
\* base that has `connections` fails with the missing-connections error
\* (NameError): no class is made and nothing is synthesized.
C3_Claim ==
  (/\ LastIsDeclaration
   /\ last.kw = NoSpec
   /\ FirstCarrier(last.bases) = 0)
  => (last.result = "NameError" /\ last.type = 0 /\ last.cfg = NoCfg)

C3_WithoutRootNamed == NoRootNamed => C3_Claim

\* C4: a class statement whose specification (explicit or inherited) is not a
\* PipelineTaskConnections subclass fails with the invalid-connections-type
\* error (ValueError), with nothing synthesized and the namespace untouched.
C4_Claim ==
  (/\ LastIsDeclaration
   /\ LastSpec # NoSpec
   /\ ~issubclass(LastSpec))
  => (/\ last.result = "ValueError"
      /\ last.type = 0
      /\ last.cfg = NoCfg
      /\ last.dct = UserDct(last.own))

C4_WithoutRootNamed == NoRootNamed => C4_Claim

\* C5: two distinct owning types never have the same connections config
\* class (as the dtype of `connections` or as ConnectionsConfigClass), and
\* assigning a field of one instance changes neither a class default nor any
\* other instance.
C5_DistinctTypes ==
  \A t, u \in Owning :
    t # u =>
      /\ CfgAttr(types, t, "connections") # NoCfg =>
           CfgAttr(types, t, "connections") # CfgAttr(types, u, "connections")
      /\ CfgAttr(types, t, "ConnectionsConfigClass") # NoCfg =>
           CfgAttr(types, t, "ConnectionsConfigClass")
             # CfgAttr(types, u, "ConnectionsConfigClass")

C5_Isolation ==
  \A i \in DOMAIN insts :
    insts'[i] # insts[i] =>
      /\ \A c \in DOMAIN cfgs : cfgs'[c] = cfgs[c]
      /\ \A j \in DOMAIN insts : j # i => insts'[j] = insts[j]

C5_Claim == []C5_DistinctTypes /\ [][C5_Isolation]_vars

C5_WithoutRootNamed == [](NoRootNamed => C5_DistinctTypes) /\ [][C5_Isolation]_vars

\* C6 as stated: the connections config built from S has a str Field for every key of
\* S.defaultTemplates, with the template's default; without defaultTemplates
\* it has the connection fields only, and the class statement does not fail.
C6_Claim ==
  /\ \A t \in Owning :
       LET c == types[t].dct.ConnectionsConfigClass
       IN (c # NoCfg /\ cfgs[c].synthesized) =>
            LET S == types[t].dct.ConnectionsClass
                items == defaultTemplates(S)
            IN /\ hasDefaultTemplates(S) =>
                    \A i \in 1..Len(items) :
                      /\ items[i][1] \in FieldNames(cfgs[c])
                      /\ cfgs[c].ns[items[i][1]].val = items[i][2]
               /\ ~hasDefaultTemplates(S) =>
                    FieldNames(cfgs[c]) \subseteq Keys(allConnections(S))
  /\ (/\ LastIsDeclaration
      /\ LastSpec \in ConnectionsTypes
      /\ ~hasDefaultTemplates(LastSpec)) => last.result \in {"ok", "TypeError"}

\* C6, amended: a str Field with the template's default for every key of
\* S.defaultTemplates other than ConnectionsClass; without defaultTemplates the
\* config has no Field besides the connection fields, and the class statement
\* fails with neither of the two errors.
C6_OtherTemplates ==
  /\ \A t \in Owning :
       LET c == types[t].dct.ConnectionsConfigClass
       IN (c # NoCfg /\ cfgs[c].synthesized) =>
            LET S == types[t].dct.ConnectionsClass
                items == defaultTemplates(S)
            IN /\ hasDefaultTemplates(S) =>
                    \A i \in 1..Len(items) :
                      items[i][1] # "ConnectionsClass" =>
                        /\ items[i][1] \in FieldNames(cfgs[c])
                        /\ cfgs[c].ns[items[i][1]].val = items[i][2]
               /\ ~hasDefaultTemplates(S) =>
                    FieldNames(cfgs[c]) \subseteq Keys(allConnections(S))
  /\ (/\ LastIsDeclaration
      /\ LastSpec \in ConnectionsTypes
      /\ ~hasDefaultTemplates(LastSpec)) => last.result \in {"ok", "TypeError"}

\* A type whose specification has the template t and one whose specification
\* has no defaultTemplates.
C6_Witness ==
  \E t, u \in Owning :
    /\ Synthesized(t)
    /\ Synthesized(u)
    /\ types[t].dct.ConnectionsClass = "S2"
    /\ FieldNames(cfgs[types[t].dct.connections]) = {"a", "t"}
    /\ cfgs[types[t].dct.connections].ns["t"].val = "v"
    /\ types[u].dct.ConnectionsClass = "S1"
    /\ FieldNames(cfgs[types[u].dct.connections]) = {"input", "output"}

\* C7: every owning type T has the triple: the dtype of T.connections is
\* T.ConnectionsConfigClass, whose ConnectionsClass is T.ConnectionsClass,
\* which is the specification resolved for T's class statement.
C7_Claim ==
  \A t \in Owning :
    LET c == CfgAttr(types, t, "ConnectionsConfigClass")
    IN /\ c # NoCfg
       /\ CfgAttr(types, t, "connections") = c
       /\ ConnectionsClassOf(cfgs[c]) = SpecAttr(types, t)
       /\ SpecAttr(types, t) = DeclaredSpec(t)

C7_WithoutRootNamed == NoRootNamed => C7_Claim

\* C8: every owning type, whatever its name, has in its own namespace a
\* connections config class synthesized at its own class statement from the
\* one specification resolved for it, and no other type has that class in
\* its namespace.
C8_Claim ==
  \A t \in Owning :
    LET c == types[t].dct.ConnectionsConfigClass
    IN /\ c # NoCfg
       /\ cfgs[c].synthesized
       /\ types[t].dct.connections = c
       /\ DeclaredSpec(t) \in ConnectionsTypes
       /\ ConnectionsClassOf(cfgs[c]) = DeclaredSpec(t)
       /\ types[t].dct.ConnectionsClass = DeclaredSpec(t)
       /\ \A u \in DOMAIN types : u # t => types[u].dct.ConnectionsConfigClass # c

C8_WithoutRootNamed == NoRootNamed => C8_Claim

\* C9: an explicit specification S2 wins over a base that has `connections`
\* for another specification S1: the new type's ConnectionsClass is S2, its
\* fields come from S2, and no existing class or config class changes.
C9_Uses ==
  \A t \in Owning :
    LET b == FirstCarrier(types[t].bases)
        kw == types[t].kw
        c == CfgAttr(types, t, "connections")
    IN (/\ kw \in ConnectionsTypes
        /\ b # 0
        /\ ConnectionsClassOf(cfgs[CfgAttr(types, b, "connections")]) # kw) =>
         /\ SpecAttr(types, t) = kw
         /\ c # NoCfg
         /\ ConnectionsClassOf(cfgs[c]) = kw
         /\ FieldNames(cfgs[c]) \subseteq Keys(allConnections(kw)) \cup Keys(defaultTemplates(kw))

C9_Frame ==
  /\ \A t \in DOMAIN types : types'[t] = types[t]
  /\ \A c \in DOMAIN cfgs : cfgs'[c] = cfgs[c]

C9_Claim == []C9_Uses /\ [][C9_Frame]_vars

C9_WithoutRootNamed == [](NoRootNamed => C9_Uses) /\ [][C9_Frame]_vars

\* C10: name collisions in the synthesized namespace raise nothing and the
\* last write wins, in the order connections, templates, ConnectionsClass: a
\* name that is a connection and a template is one Field with the template's
\* default; a connection or template named ConnectionsClass is the reference
\* to the connections class and not a Field; and what the class body wrote
\* under connections, ConnectionsConfigClass and ConnectionsClass is replaced.
C10_LastWriteWins ==
  (/\ LastIsDeclaration
   /\ last.resolved \in ConnectionsTypes) =>
     LET S == last.resolved
         conns == allConnections(S)
         tmpl == defaultTemplates(S)
     IN /\ last.result \in {"ok", "TypeError"}
        /\ last.dct.connections # NoCfg
        /\ last.dct.connections # UserDct(AttrNames).connections
        /\ last.dct.ConnectionsConfigClass = last.dct.connections
        /\ last.dct.ConnectionsClass = S
        /\ last.result = "ok" =>
             LET ns == cfgs[last.cfg].ns
             IN /\ last.dct.connections = last.cfg
                /\ types[last.type].dct = last.dct
                /\ \A i \in 1..Len(conns), j \in 1..Len(tmpl) :
                     (conns[i][1] = tmpl[j][1] /\ tmpl[j][1] # "ConnectionsClass") =>
                       /\ ns[tmpl[j][1]].kind = "Field"
                       /\ ns[tmpl[j][1]].val = tmpl[j][2]
                       /\ ns[tmpl[j][1]].doc # "name for connection " \o conns[i][1]
                /\ ns["ConnectionsClass"] = ClassRef(S)
                /\ "ConnectionsClass" \notin FieldNames(cfgs[last.cfg])

\* A class statement whose specification has a connection that is also a
\* template and a template named ConnectionsClass, and whose body wrote all
\* three names, after one whose specification has a connection named
\* ConnectionsClass.
C10_Witness ==
  /\ last.result = "ok"
  /\ last.cfg # NoCfg
  /\ last.resolved = "S3"
  /\ last.own = AttrNames
  /\ \E t \in Owning : t # last.type /\ types[t].dct.ConnectionsClass = "S4"

====
